---- MODULE Spec2Model ----
(***************************************************************************)
(* midilifx: MIDI events -> colour of one Lifx light.                      *)
(*                                                                         *)
(* The model follows the three asyncio tasks of the program on their       *)
(* single event loop:                                                      *)
(*   main  : midi_light (midi.py) or a direct caller of LifxLight,         *)
(*   bulb  : LifxLight._update_bulb_forever,                               *)
(*   timer : LifxLight._update_later, one task per scheduled update.       *)
(* `ready` is the loop's FIFO queue of runnable callbacks.  A task runs    *)
(* only when it is at the head of `ready`, and runs up to its next await.  *)
(* Times are in milliseconds.  Saturation and lightness of a colour are    *)
(* held exactly, as numerators: saturation = c.saturation / 127 and        *)
(* lightness = c.lightness / 11 (the code holds the float quotients).      *)
(***************************************************************************)
EXTENDS Integers, Sequences, FiniteSets, TLC

\* ------------------------------------------------------------- bounds
MaxEvents == 3
MaxCalls == 4
MaxFairCalls == 2
MaxTime == 350
MaxWaits == 1
MaxScanMs == 0
MaxDiscoveryMs == 200

\* ---------------------------------------------------------- constants
UPDATE_INTERVAL == 50
INFO_WAIT_TRIES == 30
INFO_WAIT_DELAY == 100
LIGHT_WAIT_DELAY == 200
MIDI_CC_MODULATION == 1
TOTAL_NOTES == 12
max_pitch == 8192
min_temp == 2500
max_temp == 9000

TickMs == UPDATE_INTERVAL \div 2

\* ------------------------------------------------------------- inputs
channels == {0}
NoChannel == 0 - 1
Notes == {60, 64}
Velocities == {0, 80, 100}
Pitches == {0, max_pitch}
Controls == {MIDI_CC_MODULATION, 7}
CCValues == {25}
InitialDurations == {0 - 1, 0, 100}
Temperatures == {5750, 2500}
Durations == {0, 100}
ScanResults == {0, 1, 2}
Products == {"known", "unknown"}
mac_addrs == {"d0:73:d5:00:00:01"}

Max(a, b) == IF a >= b THEN a ELSE b

\* ------------------------------------------------------------- colors.py
NEWTON_HUES == <<285, 300, 330, 0, 15, 45, 60, 90, 120, 180, 240, 255>>

HSLColor(h, s, l) == [hue |-> h, saturation |-> s, lightness |-> l]

\* saturation = velocity / 127 * 100, lightness = octave / 11 * 100
note_to_hsl(midi_note, velocity) ==
    LET octave == (midi_note \div TOTAL_NOTES) + 1
    IN  HSLColor(NEWTON_HUES[(midi_note % TOTAL_NOTES) + 1], velocity * 100, octave * 100)

\* (mutant) the interpolation not inverted: rises with the pitch
pitch_to_temp_rising(pitch) ==
    min_temp + (((pitch + max_pitch) * (max_temp - min_temp)) \div (max_pitch * 2))

\* (mutant) the offset rounded to the nearest integer instead of int()
pitch_to_temp_rounded(pitch) ==
    max_temp - ((2 * (pitch + max_pitch) * (max_temp - min_temp) + max_pitch * 2)
                    \div (max_pitch * 4))

\* int() truncates; the operand is never negative for a pitch in range
pitch_to_temp(pitch) ==
    max_temp - (((pitch + max_pitch) * (max_temp - min_temp)) \div (max_pitch * 2))

\* ------------------------------------------------------------- lights.py
DEFAULT_OFF_COLOR == HSLColor(0, 0, 0)
\* the value None passed to set_color
NoneColor == HSLColor(0 - 1, 0 - 1, 0 - 1)

\* Python's round() of n / d for n >= 0, d > 0: ties go to the even integer
round(n, d) ==
    LET q == n \div d
        r == n % d
    IN  IF 2 * r < d THEN q
        ELSE IF 2 * r > d THEN q + 1
        ELSE IF q % 2 = 0 THEN q ELSE q + 1

lifx_compat_color(c, temp) ==
    << round(c.hue * 65535, 360),
       round(c.saturation * 65535, 127 * 100),
       round(c.lightness * 65535, 11 * 100),
       temp >>

VARIABLES
    unsent,              \* a change of colour or temperature awaits its command
    now,                 \* time.time()
    mainpc,              \* where the main task is
    bulbpc,              \* where bulb_update_task is
    ready,               \* the event loop's queue of runnable callbacks
    inbox,               \* the event (or call) the main task wakes up with
    nevents,             \* events delivered so far
    currently_playing,   \* midi_light's dict, in insertion order
    color, temperature, transition_duration, last_update, needs_update,  \* BulbState
    running,             \* LifxLight._running
    scheduled_update,    \* LifxLight._scheduled_update: a timer, or NoTimer
    timers,              \* the _update_later tasks ever created
    cleaned,             \* light_discovery.cleanup() was called
    error,               \* the exception the main task ended with
    nsent,               \* history: how many LightSetColor commands were fired
    last_sent,           \* history: the last command fired, and whether cleanup() came first
    burst_start,         \* history: when the first set_color call changed the colour;
                         \* NotABurst once a set_temperature call changed the temperature
    last_evt,            \* history: the event or call the last main step took
    calls,               \* history: the LifxLight calls of the last main step
    treq,                \* history: colours requested since the scheduled timer was created
    tsent,               \* history: colours sent since the scheduled timer was created
    lights,              \* Lights.lights: the keys of the dict, in its order
    info,                \* label and product of the Light of every address ("none": None)
    light,               \* wait_for_light's `light`, then LifxLight._bulb (NoLight: None)
    tries,               \* wait_for_light: rounds of its loop gone through
    main_sleep           \* when the asyncio.sleep of the main task ends, or NoTime

vars == << now, mainpc, bulbpc, ready, inbox, nevents, currently_playing,
           color, temperature, transition_duration, last_update, needs_update,
           running, scheduled_update, timers, cleaned, error, nsent, last_sent, burst_start, last_evt, calls,
           treq, tsent, unsent, lights, info, light, tries, main_sleep >>

NoTimer == 0
NoLight == "None"
\* a timer task that is over
NoSleep == [state |-> "done", after |-> 0, due |-> 0, residue |-> FALSE]
MainTask == [task |-> "main", id |-> 0]
BulbTask == [task |-> "bulb", id |-> 0]
TimerTask(i) == [task |-> "timer", id |-> i]
NoEvt == [type |-> "none"]
NoTime == 0 - 1
NotABurst == 0 - 2
NoCommand == [cmd |-> [color |-> <<>>, duration |-> 0], released |-> FALSE]
MidiTypes == {"note_on", "note_off", "pitchwheel", "control_change", "program_change", "clock"}
CallTypes == {"set_color", "set_temperature", "set_transition_duration"}

Message(type, channel, note, velocity, pitch, control, value) ==
    [type |-> type, channel |-> channel, note |-> note, velocity |-> velocity,
     pitch |-> pitch, control |-> control, value |-> value]

MessagesOn(ch) ==
    {Message("note_on", ch, n, v, 0, 0, 0) : n \in Notes, v \in Velocities}
    \cup {Message("note_off", ch, n, 0, 0, 0, 0) : n \in Notes}
    \cup {Message("pitchwheel", ch, 0, 0, p, 0, 0) : p \in Pitches}
    \cup {Message("control_change", ch, 0, 0, 0, c, v) : c \in Controls, v \in CCValues}
    \cup {Message("program_change", ch, 0, 0, 0, 0, 0)}

\* messages of another channel, and one that has no channel
OtherMessages ==
    { Message("note_on", 1, 60, 100, 0, 0, 0),
      Message("pitchwheel", 1, 0, 0, max_pitch, 0, 0),
      Message("control_change", 1, 0, 0, 0, MIDI_CC_MODULATION, 25),
      Message("clock", NoChannel, 0, 0, 0, 0, 0) }

MidiEvents == MessagesOn(0) \cup OtherMessages

\* what a direct caller of LifxLight may call
CallColors == {NoneColor, DEFAULT_OFF_COLOR, note_to_hsl(60, 100), note_to_hsl(64, 80)}

LightCalls ==
    {[type |-> "set_color", color |-> c, value |-> 0] : c \in CallColors}
    \cup {[type |-> "set_temperature", color |-> NoneColor, value |-> v] : v \in Temperatures}
    \cup {[type |-> "set_transition_duration", color |-> NoneColor, value |-> v] : v \in Durations}

Call(op, c, v) == [op |-> op, color |-> c, value |-> v]

\* ------------------------------------------------- the main task's state
\* The part of the state the main task's code reads and writes, as one record,
\* so that a handler is the composition of the calls it makes.
M == [ color |-> color, temperature |-> temperature,
       transition_duration |-> transition_duration, running |-> running,
       scheduled_update |-> scheduled_update, timers |-> timers, ready |-> ready,
       currently_playing |-> currently_playing, mainpc |-> mainpc,
       cleaned |-> cleaned, error |-> error, calls |-> calls, burst_start |-> burst_start,
       treq |-> treq, tsent |-> tsent, unsent |-> unsent ]

Commit(m) ==
    /\ color' = m.color
    /\ temperature' = m.temperature
    /\ transition_duration' = m.transition_duration
    /\ running' = m.running
    /\ scheduled_update' = m.scheduled_update
    /\ timers' = m.timers
    /\ ready' = m.ready
    /\ currently_playing' = m.currently_playing
    /\ mainpc' = m.mainpc
    /\ cleaned' = m.cleaned
    /\ error' = m.error
    /\ calls' = m.calls
    /\ burst_start' = m.burst_start
    /\ treq' = m.treq
    /\ tsent' = m.tsent
    /\ unsent' = m.unsent

\* (mutant) any scheduled update counts, finished or not
update_outstanding_stale(m) ==
    m.scheduled_update # NoTimer

\* self._scheduled_update and not self._scheduled_update.done()
update_outstanding(m) ==
    /\ m.scheduled_update # NoTimer
    /\ m.timers[m.scheduled_update].state # "done"

\* (mutant) _schedule_update without its "already scheduled" check
_schedule_update_unchecked(m, t) ==
    LET next_allowed_update == last_update + UPDATE_INTERVAL
        time_to_next_update == Max(next_allowed_update - t, 0)
        id == Len(m.timers) + 1
    IN  [m EXCEPT !.timers = Append(@, [state |-> "new", after |-> time_to_next_update, due |-> 0,
                                         residue |-> next_allowed_update = t]),
                  !.scheduled_update = id,
                  !.ready = Append(@, TimerTask(id)),
                  !.treq = <<>>,
                  !.tsent = <<>>]

_schedule_update(m, t) ==
    IF update_outstanding(m) THEN m
    ELSE LET next_allowed_update == last_update + UPDATE_INTERVAL
             time_to_next_update == Max(next_allowed_update - t, 0)
             id == Len(m.timers) + 1
         IN  [m EXCEPT !.timers = Append(@, [state |-> "new", after |-> time_to_next_update, due |-> 0,
                                         residue |-> next_allowed_update = t]),
                       !.scheduled_update = id,
                       !.ready = Append(@, TimerTask(id)),
                       !.treq = <<>>,
                       !.tsent = <<>>]

\* (mutant) set_color without the early return on an unchanged colour
set_color_always(m, value, t) ==
    LET v == IF value = NoneColor THEN DEFAULT_OFF_COLOR ELSE value
        m1 == [m EXCEPT !.calls = Append(@, Call("set_color", value, 0))]
        m2 == _schedule_update([m1 EXCEPT !.color = v], t)
    IN  [m2 EXCEPT !.treq = Append(@, v),
                   !.burst_start = IF @ = NoTime THEN t ELSE @,
                   !.unsent = TRUE]

set_color(m, value, t) ==
    LET v == IF value = NoneColor THEN DEFAULT_OFF_COLOR ELSE value
        m1 == [m EXCEPT !.calls = Append(@, Call("set_color", value, 0))]
    IN  IF v = m1.color THEN m1
        ELSE LET m2 == _schedule_update([m1 EXCEPT !.color = v], t)
             IN  [m2 EXCEPT !.treq = Append(@, v),
                            !.burst_start = IF @ = NoTime THEN t ELSE @,
                            !.unsent = TRUE]

set_temperature(m, value, t) ==
    LET m1 == [m EXCEPT !.calls = Append(@, Call("set_temperature", NoneColor, value))]
    IN  IF value = m1.temperature THEN m1
        ELSE LET m2 == _schedule_update([m1 EXCEPT !.temperature = value], t)
             IN  [m2 EXCEPT !.burst_start = NotABurst, !.unsent = TRUE]

\* (mutant) set_transition_duration that also requests an update
set_transition_duration_scheduling(m, value) ==
    _schedule_update([m EXCEPT !.calls = Append(@, Call("set_transition_duration", NoneColor, value)),
                               !.transition_duration = value], now)

set_transition_duration(m, value) ==
    [m EXCEPT !.calls = Append(@, Call("set_transition_duration", NoneColor, value)),
              !.transition_duration = value]

\* (mutant) __aexit__ that ends without light_discovery.cleanup()
cleanup_missing(m) == [m EXCEPT !.mainpc = "done"]

cleanup(m) == [m EXCEPT !.cleaned = TRUE, !.mainpc = "done"]

\* LifxLight.__aexit__ up to its await (or to its end when it does not wait)
aexit(m, t) ==
    LET m1 == set_color([m EXCEPT !.running = FALSE], NoneColor, t)
    IN  IF m1.scheduled_update # NoTimer /\ bulbpc # "done"
        THEN IF m1.timers[m1.scheduled_update].state = "done"
             THEN cleanup(m1)
             ELSE [m1 EXCEPT !.mainpc = "await_timer"]
        ELSE cleanup(m1)

\* ------------------------------------------------------------- midi.py
\* (mutant) a dict that moves a key that is set again to the end
dict_set_moving(d, note, velocity) ==
    Append(SelectSeq(d, LAMBDA kv : kv[1] # note), <<note, velocity>>)

\* currently_playing[note] = velocity: a held note keeps its position
dict_set(d, note, velocity) ==
    IF \E i \in 1..Len(d) : d[i][1] = note
    THEN [i \in 1..Len(d) |-> IF d[i][1] = note THEN <<note, velocity>> ELSE d[i]]
    ELSE Append(d, <<note, velocity>>)

\* currently_playing.pop(note, None)
dict_pop(d, note) == SelectSeq(d, LAMBDA kv : kv[1] # note)

\* (mutant) no channel filter
listened_all(evt, chs) == TRUE

\* getattr(evt, "channel", None) in channels
listened(evt, chs) == evt.channel \in chs

\* (mutant) the colour of the note pressed last
recompute_last(m, t) ==
    IF m.currently_playing # <<>>
    THEN LET last == m.currently_playing[Len(m.currently_playing)]
         IN  set_color(m, note_to_hsl(last[1], last[2]), t)
    ELSE set_color(m, NoneColor, t)

\* lines 53-59: the colour of the first note still playing, or off
recompute(m, t) ==
    IF m.currently_playing # <<>>
    THEN set_color(m, note_to_hsl(m.currently_playing[1][1], m.currently_playing[1][2]), t)
    ELSE set_color(m, NoneColor, t)

\* pitch_to_temp() takes no min_temp / max_temp: the call raises TypeError,
\* which leaves the `async with` block through __aexit__
raise_TypeError(m, t) == aexit([m EXCEPT !.error = "TypeError"], t)

\* (mutant) a note_on of velocity 0 handled as a note_off
midi_light_velocity0_off(m, evt, t) ==
    IF ~listened(evt, channels) THEN m
    ELSE IF evt.type = "note_on" /\ evt.velocity # 0
         THEN recompute([m EXCEPT !.currently_playing = dict_set(@, evt.note, evt.velocity)], t)
    ELSE IF evt.type \in {"note_off", "note_on"}
         THEN recompute([m EXCEPT !.currently_playing = dict_pop(@, evt.note)], t)
    ELSE IF evt.type = "pitchwheel"
         THEN raise_TypeError(m, t)
    ELSE IF evt.type = "control_change" /\ evt.control = MIDI_CC_MODULATION
         THEN set_transition_duration(m, evt.value * 4)
    ELSE m

\* the body of the `async for` of midi_light, for one event
midi_light(m, evt, t) ==
    IF ~listened(evt, channels) THEN m
    ELSE IF evt.type = "note_on" /\ evt.velocity # 0
         THEN recompute([m EXCEPT !.currently_playing = dict_set(@, evt.note, evt.velocity)], t)
    ELSE IF evt.type = "note_off"
         THEN recompute([m EXCEPT !.currently_playing = dict_pop(@, evt.note)], t)
    ELSE IF evt.type = "pitchwheel"
         THEN raise_TypeError(m, t)
    ELSE IF evt.type = "control_change" /\ evt.control = MIDI_CC_MODULATION
         THEN set_transition_duration(m, evt.value * 4)
    ELSE m

\* a caller that uses LifxLight directly: one call of its public interface
light_call(m, call, t) ==
    IF call.type = "set_color" THEN set_color(m, call.color, t)
    ELSE IF call.type = "set_temperature" THEN set_temperature(m, call.value, t)
    ELSE set_transition_duration(m, call.value)

\* ------------------------------------------------------------- initial state
Init ==
    /\ now = 0
    /\ mainpc = "init"
    /\ bulbpc = "none"
    /\ ready = <<>>
    /\ inbox = NoEvt
    /\ nevents = 0
    /\ currently_playing = <<>>
    /\ color = DEFAULT_OFF_COLOR
    /\ temperature = 0
    /\ transition_duration = 0
    /\ last_update = 0
    /\ needs_update = FALSE
    /\ running = FALSE
    /\ scheduled_update = NoTimer
    /\ timers = <<>>
    /\ cleaned = FALSE
    /\ error = "none"
    /\ nsent = 0
    /\ last_sent = NoCommand
    /\ burst_start = NoTime
    /\ last_evt = NoEvt
    /\ calls = <<>>
    /\ treq = <<>>
    /\ tsent = <<>>
    /\ unsent = FALSE
    /\ lights = <<>>
    /\ info = [l \in mac_addrs |-> "none"]
    /\ light = NoLight
    /\ tries = 0
    /\ main_sleep = NoTime

\* ------------------------------------------------------------- actions
\* an asyncio.sleep is running and is not over yet
sleep_running ==
    IF main_sleep > now THEN TRUE
    ELSE \E i \in 1..Len(timers) : timers[i].state = "sleeping" /\ timers[i].due > now

\* time passes, counted from the construction of the light: up to MaxTime, and
\* beyond it as long as a sleep is running
Tick ==
    /\ mainpc # "init"
    /\ IF now + TickMs <= MaxTime THEN TRUE ELSE sleep_running
    /\ now' = now + TickMs
    /\ UNCHANGED << mainpc, bulbpc, ready, inbox, nevents, currently_playing,
                    color, temperature, transition_duration, last_update, needs_update,
                    running, scheduled_update, timers, cleaned, error, nsent, last_sent, burst_start, last_evt, calls,
                    treq, unsent, lights, info, light, tries, main_sleep, tsent >>

\* (mutant) __init__ without the check of the sign of the duration
LifxLight_unchecked(initial_transition_duration) ==
    /\ mainpc = "init"
    /\ color' = DEFAULT_OFF_COLOR
    /\ temperature' = pitch_to_temp(0)
    /\ transition_duration' = initial_transition_duration
    /\ last_update' = now
    /\ needs_update' = FALSE
    /\ running' = TRUE
    /\ bulbpc' = "start"
    /\ ready' = Append(ready, BulbTask)
    /\ mainpc' = "scan"
    /\ last_evt' = [type |-> "init", value |-> initial_transition_duration]
    /\ UNCHANGED << now, inbox, nevents, currently_playing, scheduled_update, timers,
                    cleaned, error, nsent, last_sent, burst_start, calls, treq, unsent, lights, info, light, tries, main_sleep, tsent >>

\* LifxLight.__init__ (last_evt keeps the argument of the call)
LifxLight(initial_transition_duration) ==
    /\ mainpc = "init"
    /\ IF initial_transition_duration < 0
       THEN /\ mainpc' = "done"
            /\ error' = "ValueError"
            /\ UNCHANGED << color, temperature, transition_duration, last_update,
                            needs_update, running, bulbpc, ready >>
       ELSE /\ color' = DEFAULT_OFF_COLOR
            /\ temperature' = pitch_to_temp(0)
            /\ transition_duration' = initial_transition_duration
            /\ last_update' = now
            /\ needs_update' = FALSE
            /\ running' = TRUE
            /\ bulbpc' = "start"
            /\ ready' = Append(ready, BulbTask)
            /\ mainpc' = "scan"
            /\ UNCHANGED error
    /\ last_evt' = [type |-> "init", value |-> initial_transition_duration]
    /\ UNCHANGED << now, inbox, nevents, currently_playing, scheduled_update, timers,
                    cleaned, nsent, last_sent, burst_start, calls, treq, unsent, lights, info, light, tries, main_sleep, tsent >>

Construct == \E d \in InitialDurations : LifxLight(d)

\* aiolifx: LifxScan.scan(), awaited by _get_local_ip, returns its addresses
ScanReturns(n) ==
    /\ mainpc = "scan"
    /\ inbox = NoEvt
    /\ now <= MaxScanMs
    /\ inbox' = [type |-> "scan", value |-> n]
    /\ ready' = Append(ready, MainTask)
    /\ UNCHANGED << now, mainpc, bulbpc, nevents, currently_playing,
                    color, temperature, transition_duration, last_update, needs_update,
                    running, scheduled_update, timers, cleaned, error, nsent, last_sent,
                    burst_start, last_evt, calls, treq, tsent, unsent,
                    lights, info, light, tries, main_sleep >>

ScanEnds == \E n \in ScanResults : ScanReturns(n)

\* the discovery of aiolifx runs, from light_discovery.start in __aenter__ to
\* light_discovery.cleanup in __aexit__; what it reports is followed up to
\* MaxDiscoveryMs
discovering ==
    /\ mainpc \in {"light_wait", "info_wait", "events", "await_timer"}
    /\ now <= MaxDiscoveryMs

\* aiolifx calls Lights.register with the Light of an address that is not
\* registered: its label and product are asked for, and it is the last key of
\* the dict
register(l) ==
    /\ discovering
    /\ \A i \in 1..Len(lights) : lights[i] # l
    /\ lights' = Append(lights, l)
    /\ UNCHANGED << now, mainpc, bulbpc, ready, inbox, nevents, currently_playing,
                    color, temperature, transition_duration, last_update, needs_update,
                    running, scheduled_update, timers, cleaned, error, nsent, last_sent,
                    burst_start, last_evt, calls, treq, tsent, unsent,
                    info, light, tries, main_sleep >>

Register == \E l \in mac_addrs : register(l)

\* aiolifx calls Lights.unregister with a light that is registered
unregister(l) ==
    /\ discovering
    /\ \E i \in 1..Len(lights) : lights[i] = l
    /\ lights' = SelectSeq(lights, LAMBDA x : x # l)
    /\ UNCHANGED << now, mainpc, bulbpc, ready, inbox, nevents, currently_playing,
                    color, temperature, transition_duration, last_update, needs_update,
                    running, scheduled_update, timers, cleaned, error, nsent, last_sent,
                    burst_start, last_evt, calls, treq, tsent, unsent,
                    info, light, tries, main_sleep >>

Unregister == \E l \in mac_addrs : unregister(l)

\* aiolifx: a light has answered, its label and product are set; the product
\* is one that products_dict holds, or not
InfoReceived(l, product) ==
    /\ discovering
    /\ info[l] = "none"
    /\ info' = [info EXCEPT ![l] = product]
    /\ UNCHANGED << now, mainpc, bulbpc, ready, inbox, nevents, currently_playing,
                    color, temperature, transition_duration, last_update, needs_update,
                    running, scheduled_update, timers, cleaned, error, nsent, last_sent,
                    burst_start, last_evt, calls, treq, tsent, unsent,
                    lights, light, tries, main_sleep >>

InfoArrives == \E l \in mac_addrs, product \in Products : InfoReceived(l, product)

\* wait_for_light up to its first await, or its next one
wait_for_light(m) ==
    IF lights = <<>>
    THEN [pc |-> "light_wait", delay |-> LIGHT_WAIT_DELAY, light |-> NoLight]
    ELSE [pc |-> "info_wait", delay |-> INFO_WAIT_DELAY, light |-> Head(lights)]

\* __aenter__ after the scan: _get_local_ip's assert, the start of the
\* discovery, and wait_for_light up to its first sleep
AEnterScanned ==
    /\ ready # <<>> /\ Head(ready) = MainTask
    /\ mainpc = "scan"
    /\ inbox.type = "scan"
    /\ inbox' = NoEvt
    /\ ready' = Tail(ready)
    /\ IF inbox.value # 1
       THEN /\ mainpc' = "done"
            /\ error' = "AssertionError"
            /\ UNCHANGED << main_sleep, light >>
       ELSE /\ mainpc' = wait_for_light(M).pc
            /\ main_sleep' = now + wait_for_light(M).delay
            /\ light' = wait_for_light(M).light
            /\ UNCHANGED error
    /\ UNCHANGED << now, bulbpc, nevents, currently_playing,
                    color, temperature, transition_duration, last_update, needs_update,
                    running, scheduled_update, timers, cleaned, nsent, last_sent,
                    burst_start, last_evt, calls, treq, tsent, unsent, lights, info, tries >>

\* an asyncio.sleep of wait_for_light is over: the main task is woken
MainSleepEnds ==
    /\ main_sleep # NoTime
    /\ now >= main_sleep
    /\ main_sleep' = NoTime
    /\ ready' = Append(ready, MainTask)
    /\ UNCHANGED << now, mainpc, bulbpc, inbox, nevents, currently_playing,
                    color, temperature, transition_duration, last_update, needs_update,
                    running, scheduled_update, timers, cleaned, error, nsent, last_sent,
                    burst_start, last_evt, calls, treq, tsent, unsent, lights, info, light, tries >>

\* wait_for_light, `while not self.lights`: one more round (MaxWaits rounds at
\* most are followed), or on to the wait for label and product
LightWaitWakes ==
    /\ ready # <<>> /\ Head(ready) = MainTask
    /\ mainpc = "light_wait"
    /\ lights = <<>> => tries < MaxWaits
    /\ ready' = Tail(ready)
    /\ mainpc' = wait_for_light(M).pc
    /\ main_sleep' = now + wait_for_light(M).delay
    /\ light' = wait_for_light(M).light
    /\ tries' = IF lights = <<>> THEN tries + 1 ELSE 0
    /\ UNCHANGED << now, bulbpc, inbox, nevents, currently_playing,
                    color, temperature, transition_duration, last_update, needs_update,
                    running, scheduled_update, timers, cleaned, error, nsent, last_sent,
                    burst_start, last_evt, calls, treq, tsent, unsent, lights, info >>

\* __aenter__ returns (its assert on bulb_update_task first) and the `async
\* with` block starts: midi.py 25 reads light.name and light.product, a
\* KeyError of products_dict leaves the block through __aexit__
enter_block(m, t) ==
    IF bulbpc = "done" THEN [m EXCEPT !.mainpc = "done", !.error = "AssertionError"]
    ELSE IF info[light] = "unknown" THEN aexit([m EXCEPT !.error = "KeyError"], t)
    ELSE [m EXCEPT !.mainpc = "events"]

\* wait_for_light, one round of `for _ in range(INFO_WAIT_TRIES)` after its
\* sleep: label and product are there and the block is entered, or the tries
\* are used up (RuntimeError, no __aexit__), or the next sleep starts
InfoWaitWakes ==
    /\ ready # <<>> /\ Head(ready) = MainTask
    /\ mainpc = "info_wait"
    /\ tries' = tries + 1
    /\ IF info[light] \in Products
       THEN /\ Commit(enter_block([M EXCEPT !.ready = Tail(ready), !.calls = <<>>], now))
            /\ UNCHANGED main_sleep
       ELSE IF tries + 1 = INFO_WAIT_TRIES
       THEN /\ Commit([M EXCEPT !.ready = Tail(ready), !.mainpc = "done",
                                !.error = "RuntimeError"])
            /\ UNCHANGED main_sleep
       ELSE /\ Commit([M EXCEPT !.ready = Tail(ready)])
            /\ main_sleep' = now + INFO_WAIT_DELAY
    /\ UNCHANGED << now, bulbpc, inbox, last_evt, nevents, last_update, needs_update,
                    nsent, last_sent, lights, info, light >>

\* the MIDI thread hands over the next event
Deliver(evt) ==
    /\ mainpc = "events"
    /\ inbox = NoEvt
    /\ inbox' = evt
    /\ ready' = Append(ready, MainTask)
    /\ UNCHANGED << now, mainpc, bulbpc, currently_playing,
                    color, temperature, transition_duration, last_update, needs_update,
                    running, scheduled_update, timers, cleaned, error, nsent, last_sent, burst_start, last_evt, calls,
                    treq, unsent, lights, info, light, tries, main_sleep, tsent >>

EventArrives ==
    /\ nevents < MaxEvents
    /\ nevents' = nevents + 1
    /\ \E evt \in MidiEvents : Deliver(evt)

\* the event stream ends
StreamEnds ==
    /\ Deliver([type |-> "end"])
    /\ UNCHANGED nevents

\* one iteration of midi_light's `async for`
RunMidiLight ==
    /\ ready # <<>> /\ Head(ready) = MainTask
    /\ mainpc = "events"
    /\ inbox.type \in MidiTypes
    /\ Commit(midi_light([M EXCEPT !.ready = Tail(ready), !.calls = <<>>], inbox, now))
    /\ inbox' = NoEvt
    /\ last_evt' = inbox
    /\ UNCHANGED << now, bulbpc, nevents, last_update, needs_update, nsent, last_sent,
                    lights, info, light, tries, main_sleep >>

\* the direct caller is ready to make its next call
CallArrives ==
    /\ nevents < MaxCalls
    /\ nevents' = nevents + 1
    /\ \E call \in LightCalls : Deliver(call)

\* the direct caller makes a call of LifxLight's interface
RunCaller ==
    /\ ready # <<>> /\ Head(ready) = MainTask
    /\ mainpc = "events"
    /\ inbox.type \in CallTypes
    /\ Commit(light_call([M EXCEPT !.ready = Tail(ready), !.calls = <<>>], inbox, now))
    /\ inbox' = NoEvt
    /\ last_evt' = inbox
    /\ UNCHANGED << now, bulbpc, nevents, last_update, needs_update, nsent, last_sent,
                    lights, info, light, tries, main_sleep >>

\* the `async with` block is left: __aexit__ up to its await
RunAExit ==
    /\ ready # <<>> /\ Head(ready) = MainTask
    /\ mainpc = "events"
    /\ inbox.type = "end"
    /\ Commit(aexit([M EXCEPT !.ready = Tail(ready), !.calls = <<>>], now))
    /\ inbox' = NoEvt
    /\ last_evt' = inbox
    /\ UNCHANGED << now, bulbpc, nevents, last_update, needs_update, nsent, last_sent,
                    lights, info, light, tries, main_sleep >>

\* __aexit__ after `await self._scheduled_update`
RunAExitResume ==
    /\ ready # <<>> /\ Head(ready) = MainTask
    /\ mainpc = "await_timer"
    /\ Commit(cleanup([M EXCEPT !.ready = Tail(ready), !.calls = <<>>]))
    /\ UNCHANGED << now, bulbpc, inbox, last_evt, nevents, last_update, needs_update, nsent, last_sent,
                    lights, info, light, tries, main_sleep >>

\* _update_later, first step: asyncio.sleep(after)
TimerSleep(i) ==
    /\ ready # <<>> /\ Head(ready) = TimerTask(i)
    /\ timers[i].state = "new"
    /\ IF timers[i].after <= 0
       THEN /\ timers' = [timers EXCEPT ![i].state = "woken"]
            /\ ready' = Append(Tail(ready), TimerTask(i))
       ELSE /\ timers' = [timers EXCEPT ![i].state = "sleeping", ![i].due = now + timers[i].after]
            /\ ready' = Tail(ready)
    /\ UNCHANGED << now, mainpc, bulbpc, inbox, nevents, currently_playing,
                    color, temperature, transition_duration, last_update, needs_update,
                    running, scheduled_update, cleaned, error, nsent, last_sent, burst_start, last_evt, calls, treq, unsent, lights, info, light, tries, main_sleep, tsent >>

\* _update_later, first step, when the update was asked for exactly
\* UPDATE_INTERVAL after the last one: the difference of the floats is 0.0 or
\* a positive residue of their rounding, and with a residue asyncio.sleep
\* waits on a timer of the loop, due at once
TimerSleepResidue(i) ==
    /\ ready # <<>> /\ Head(ready) = TimerTask(i)
    /\ timers[i].state = "new"
    /\ timers[i].residue
    /\ timers' = [timers EXCEPT ![i].state = "sleeping", ![i].due = now]
    /\ ready' = Tail(ready)
    /\ UNCHANGED << now, mainpc, bulbpc, inbox, nevents, currently_playing,
                    color, temperature, transition_duration, last_update, needs_update,
                    running, scheduled_update, cleaned, error, nsent, last_sent, burst_start, last_evt, calls, treq, unsent, lights, info, light, tries, main_sleep, tsent >>

\* the loop's timer of asyncio.sleep expires
TimerExpires(i) ==
    /\ timers[i].state = "sleeping"
    /\ now >= timers[i].due
    /\ timers' = [timers EXCEPT ![i].state = "woken"]
    /\ ready' = Append(ready, TimerTask(i))
    /\ UNCHANGED << now, mainpc, bulbpc, inbox, nevents, currently_playing,
                    color, temperature, transition_duration, last_update, needs_update,
                    running, scheduled_update, cleaned, error, nsent, last_sent, burst_start, last_evt, calls, treq, unsent, lights, info, light, tries, main_sleep, tsent >>

\* who the end of timer i wakes: the bulb task when needs_update.set() finds it
\* waiting, then the main task when it awaits the timer
timer_wakes(i) ==
    (IF ~needs_update /\ bulbpc = "waiting" THEN <<BulbTask>> ELSE <<>>)
    \o (IF mainpc = "await_timer" /\ scheduled_update = i THEN <<MainTask>> ELSE <<>>)

\* _update_later after the sleep: needs_update.set(), and the task is done
TimerFires(i) ==
    /\ ready # <<>> /\ Head(ready) = TimerTask(i)
    /\ timers[i].state = "woken"
    /\ needs_update' = TRUE
    /\ bulbpc' = IF ~needs_update /\ bulbpc = "waiting" THEN "woken" ELSE bulbpc
    /\ timers' = [timers EXCEPT ![i] = NoSleep]
    /\ ready' = Tail(ready) \o timer_wakes(i)
    /\ UNCHANGED << now, mainpc, inbox, nevents, currently_playing,
                    color, temperature, transition_duration, last_update,
                    running, scheduled_update, cleaned, error, nsent, last_sent, burst_start, last_evt, calls, treq, unsent, lights, info, light, tries, main_sleep, tsent >>

\* (mutant) the payload without the state's transition duration
LightSetColor_no_duration(c, temp, duration) ==
    [color |-> lifx_compat_color(c, temp), duration |-> 0]

\* the payload of fire_and_forget
LightSetColor(c, temp, duration) ==
    [color |-> lifx_compat_color(c, temp), duration |-> duration]

\* _update_bulb_forever, first step: up to needs_update.wait()
BulbStart ==
    /\ ready # <<>> /\ Head(ready) = BulbTask
    /\ bulbpc = "start"
    /\ bulbpc' = IF running THEN "waiting" ELSE "done"
    /\ ready' = Tail(ready)
    /\ UNCHANGED << now, mainpc, inbox, nevents, currently_playing,
                    color, temperature, transition_duration, last_update, needs_update,
                    running, scheduled_update, timers, cleaned, error, nsent, last_sent, burst_start, last_evt, calls,
                    treq, unsent, lights, info, light, tries, main_sleep, tsent >>

\* _update_bulb_forever woken by needs_update: clear, send, and around the loop
BulbSend ==
    /\ ready # <<>> /\ Head(ready) = BulbTask
    /\ bulbpc = "woken"
    /\ needs_update' = FALSE
    /\ nsent' = nsent + 1
    /\ last_sent' = [cmd |-> LightSetColor(color, temperature, transition_duration),
                     released |-> cleaned]
    /\ tsent' = Append(tsent, color)
    /\ unsent' = FALSE
    /\ last_update' = now
    /\ bulbpc' = IF running THEN "waiting" ELSE "done"
    /\ ready' = Tail(ready)
    /\ UNCHANGED << now, mainpc, inbox, nevents, currently_playing,
                    color, temperature, transition_duration,
                    running, scheduled_update, timers, cleaned, error, burst_start, last_evt, calls, treq,
                    lights, info, light, tries, main_sleep >>

\* asyncio.run once main() has returned or raised: what is still queued runs
\* first (it is ahead in `ready`), then the tasks still pending are cancelled
\* and the loop is closed
AsyncioRunEnds ==
    /\ mainpc = "done"
    /\ ready = <<>>
    /\ mainpc' = "closed"
    /\ bulbpc' = IF bulbpc \in {"none", "done"} THEN bulbpc ELSE "cancelled"
    /\ timers' = [i \in 1..Len(timers) |->
                     IF timers[i].state = "done" THEN timers[i]
                     ELSE [timers[i] EXCEPT !.state = "cancelled"]]
    /\ UNCHANGED << now, ready, inbox, nevents, currently_playing,
                    color, temperature, transition_duration, last_update, needs_update,
                    running, scheduled_update, cleaned, error, nsent, last_sent,
                    burst_start, last_evt, calls, treq, tsent, unsent,
                    lights, info, light, tries, main_sleep >>

Next ==
    \/ Tick
    \/ Construct
    \/ ScanEnds
    \/ Register
    \/ Unregister
    \/ InfoArrives
    \/ AEnterScanned
    \/ MainSleepEnds
    \/ LightWaitWakes
    \/ InfoWaitWakes
    \/ EventArrives
    \/ StreamEnds
    \/ RunMidiLight
    \/ RunAExit
    \/ RunAExitResume
    \/ \E i \in 1..Len(timers) : TimerSleep(i)
    \/ \E i \in 1..Len(timers) : TimerSleepResidue(i)
    \/ \E i \in 1..Len(timers) : TimerExpires(i)
    \/ \E i \in 1..Len(timers) : TimerFires(i)
    \/ BulbStart
    \/ BulbSend
    \/ AsyncioRunEnds

Spec == Init /\ [][Next]_vars

\* LifxLight under a caller that enters the light as midi_light does and then
\* calls its public interface directly instead of handling MIDI events
LightNext ==
    \/ Tick
    \/ Construct
    \/ ScanEnds
    \/ Register
    \/ Unregister
    \/ InfoArrives
    \/ AEnterScanned
    \/ MainSleepEnds
    \/ LightWaitWakes
    \/ InfoWaitWakes
    \/ CallArrives
    \/ StreamEnds
    \/ RunCaller
    \/ RunAExit
    \/ RunAExitResume
    \/ \E i \in 1..Len(timers) : TimerSleep(i)
    \/ \E i \in 1..Len(timers) : TimerSleepResidue(i)
    \/ \E i \in 1..Len(timers) : TimerExpires(i)
    \/ \E i \in 1..Len(timers) : TimerFires(i)
    \/ BulbStart
    \/ BulbSend

LightSpec == Init /\ [][LightNext]_vars

\* what the event loop does by itself: it runs the callbacks that are ready,
\* one after the other, and the sleeps end when their time has come
LoopRuns ==
    \/ Tick
    \/ AEnterScanned
    \/ MainSleepEnds
    \/ LightWaitWakes
    \/ InfoWaitWakes
    \/ RunCaller
    \/ RunAExit
    \/ RunAExitResume
    \/ \E i \in 1..Len(timers) : TimerSleep(i)
    \/ \E i \in 1..Len(timers) : TimerSleepResidue(i)
    \/ \E i \in 1..Len(timers) : TimerExpires(i)
    \/ \E i \in 1..Len(timers) : TimerFires(i)
    \/ BulbStart
    \/ BulbSend

\* a caller that makes few calls, or none, before it leaves
FairCallArrives ==
    /\ nevents < MaxFairCalls
    /\ nevents' = nevents + 1
    /\ \E call \in LightCalls : Deliver(call)

FairLightNext ==
    \/ Construct
    \/ ScanEnds
    \/ Register
    \/ Unregister
    \/ InfoArrives
    \/ FairCallArrives
    \/ StreamEnds
    \/ LoopRuns

\* the event loop never stops while it has something to run or to wait for;
\* the scan, the light and the caller owe nothing
FairLightSpec == Init /\ [][FairLightNext]_vars /\ WF_vars(LoopRuns)

\* ------------------------------------------------------------- pitch_to_temp alone
\* the pitches pitch_to_temp accepts (its assert)
PitchRange == (0 - max_pitch)..max_pitch

\* a pitch-wheel message of any accepted pitch is at hand
PitchInit ==
    /\ now = 0
    /\ mainpc = "pitch"
    /\ bulbpc = "none"
    /\ ready = <<>>
    /\ inbox \in {Message("pitchwheel", 0, 0, 0, p, 0, 0) : p \in PitchRange}
    /\ nevents = 0
    /\ currently_playing = <<>>
    /\ color = DEFAULT_OFF_COLOR
    /\ temperature = 0
    /\ transition_duration = 0
    /\ last_update = 0
    /\ needs_update = FALSE
    /\ running = FALSE
    /\ scheduled_update = NoTimer
    /\ timers = <<>>
    /\ cleaned = FALSE
    /\ error = "none"
    /\ nsent = 0
    /\ last_sent = NoCommand
    /\ burst_start = NoTime
    /\ last_evt = NoEvt
    /\ calls = <<>>
    /\ treq = <<>>
    /\ tsent = <<>>
    /\ unsent = FALSE
    /\ lights = <<>>
    /\ info = [l \in mac_addrs |-> "none"]
    /\ light = NoLight
    /\ tries = 0
    /\ main_sleep = NoTime

\* temperature = pitch_to_temp(evt.pitch)
PitchToTemp ==
    /\ mainpc = "pitch"
    /\ temperature' = pitch_to_temp(inbox.pitch)
    /\ last_evt' = inbox
    /\ inbox' = NoEvt
    /\ mainpc' = "pitched"
    /\ UNCHANGED << now, bulbpc, ready, nevents, currently_playing, color,
                    transition_duration, last_update, needs_update, running,
                    scheduled_update, timers, cleaned, error, nsent, last_sent,
                    burst_start, calls, treq, unsent, lights, info, light, tries, main_sleep, tsent >>

PitchNext == PitchToTemp

PitchSpec == PitchInit /\ [][PitchNext]_vars

\* ------------------------------------------------------------- properties
IsOffCommand(c) == c.cmd.color[1] = 0 /\ c.cmd.color[2] = 0 /\ c.cmd.color[3] = 0

CeilDiv(a, b) == (a + b - 1) \div b

Outstanding == {i \in 1..Len(timers) : timers[i].state # "done"}

\* the step is the main task handling the event or call in its inbox
MainTakes(type) == inbox.type = type /\ mainpc = "events" /\ inbox' = NoEvt

\* C1: once teardown has completed (cleanup() was called), the last command
\* sent to the device is the off-colour command.
C1_ShutdownLastCommandOff ==
    (mainpc = "done" /\ cleaned /\ nsent > 0) => IsOffCommand(last_sent)

\* C2: for set_color calls alone, the number of commands dispatched is at most
\* ceil(T / UPDATE_INTERVAL) + 1, T being the time since the first call that
\* changed the colour (taken up to the end of the current tick, which is at
\* least the window of the burst).
C2_RateBound ==
    burst_start >= 0 =>
        nsent <= CeilDiv((now - burst_start) + TickMs, UPDATE_INTERVAL) + 1

\* C3: two set_color calls A then B made for the same scheduled update: at most
\* one command is sent for them and it carries B, never A.
C3_CoalescedLatestValue ==
    Len(treq) = 2 =>
        /\ Len(tsent) <= 1
        /\ \A k \in 1..Len(tsent) : tsent[k] = treq[2]

\* C4: every command sent carries the colour, temperature and transition
\* duration the state holds at the moment of the send.
C4_LatestValueDispatch ==
    [][nsent' > nsent =>
        /\ last_sent'.cmd.color = lifx_compat_color(color, temperature)
        /\ last_sent'.cmd.duration = transition_duration
        /\ UNCHANGED << color, temperature, transition_duration >>]_vars

C4_Witness ==
    /\ nsent > 0
    /\ last_sent.cmd.color = lifx_compat_color(note_to_hsl(64, 80), 2500)
    /\ last_sent.cmd.duration = 100

\* C5: set_color with the current colour (None standing for off) and
\* set_temperature with the current temperature schedule nothing and change
\* neither last_update, nor the state, nor the scheduled update.
C5_Idempotence ==
    [][(\/ /\ MainTakes("set_color")
           /\ color = (IF inbox.color = NoneColor THEN DEFAULT_OFF_COLOR ELSE inbox.color)
        \/ /\ MainTakes("set_temperature")
           /\ temperature = inbox.value)
       => /\ UNCHANGED << color, temperature, transition_duration, last_update,
                          needs_update, scheduled_update, timers, nsent >>
          /\ ready' = Tail(ready)]_vars

C5_Witness ==
    /\ last_evt.type = "set_color"
    /\ last_evt.color = NoneColor
    /\ color = DEFAULT_OFF_COLOR
    /\ nsent > 0
    /\ Outstanding = {}
    /\ ready = <<>>

\* C6: while events are consumed, the colour held is that of the earliest
\* inserted note still held, at its current velocity, and off when none is held.
C6_TieBreak ==
    mainpc = "events" =>
        color = IF currently_playing = <<>> THEN DEFAULT_OFF_COLOR
                ELSE note_to_hsl(Head(currently_playing)[1], Head(currently_playing)[2])

C6_Witness ==
    /\ mainpc = "events"
    /\ currently_playing = << <<64, 80>>, <<60, 100>> >>
    /\ color = note_to_hsl(64, 80)

\* C7: an event of a channel that is not listened to, or without a channel,
\* makes no LifxLight call and leaves the held notes and the state unchanged.
C7_ChannelFilter ==
    [][(/\ inbox.type \in MidiTypes
        /\ inbox' = NoEvt
        /\ inbox.channel \notin channels)
       => /\ calls' = <<>>
          /\ UNCHANGED << currently_playing, color, temperature, transition_duration,
                          last_update, needs_update, scheduled_update, timers,
                          running, mainpc >>]_vars

C7_Witness ==
    /\ last_evt.type = "note_on"
    /\ last_evt.channel = 1
    /\ inbox = NoEvt
    /\ calls = <<>>
    /\ currently_playing = << <<60, 100>> >>
    /\ mainpc = "events"

\* C8: a pitch-bend event on a listened channel calls set_temperature with the
\* temperature of its pitch, and neither changes the colour nor the held notes.
C8_PitchBendSetsTemperature ==
    [][(/\ MainTakes("pitchwheel")
        /\ inbox.channel \in channels)
       => /\ calls' = << Call("set_temperature", NoneColor, pitch_to_temp(inbox.pitch)) >>
          /\ UNCHANGED << color, currently_playing >>]_vars

\* C9: a modulation control change on a listened channel sets the transition
\* duration to 4 * value and requests no dispatch; the duration reaches the
\* device with the next command, which carries the duration then held.
C9_ModulationSetsDuration ==
    [][/\ (/\ MainTakes("control_change")
           /\ inbox.control = MIDI_CC_MODULATION
           /\ inbox.channel \in channels)
          => /\ transition_duration' = inbox.value * 4
             /\ ready' = Tail(ready)
             /\ UNCHANGED << color, temperature, last_update, needs_update,
                             scheduled_update, timers, nsent, last_sent,
                             currently_playing >>
       /\ nsent' > nsent => last_sent'.cmd.duration = transition_duration]_vars

C9_Witness ==
    /\ last_evt.type = "control_change"
    /\ last_evt.control = MIDI_CC_MODULATION
    /\ last_evt.channel = 0
    /\ transition_duration = 100
    /\ nsent > 0
    /\ last_sent.cmd.duration = 0
    /\ Outstanding = {}
    /\ ready = <<>>

\* C10: at most one scheduled update is outstanding; a request made while one
\* is outstanding joins it.
C10_AtMostOnePendingUpdate == Cardinality(Outstanding) <= 1

C10_Witness ==
    /\ Len(treq) >= 2
    /\ Cardinality(Outstanding) = 1
    /\ timers[scheduled_update].state = "sleeping"

\* C11: no command is sent to the device after the connection has been
\* released: every command was sent while cleanup() had not been called yet.
C11_NoSendAfterRelease ==
    nsent > 0 => ~last_sent.released

\* C15: any two consecutive commands are at least UPDATE_INTERVAL apart: at a
\* send that follows an earlier one, the time since the earlier send
\* (last_update) is at least UPDATE_INTERVAL.
C15_MinimumSpacing ==
    [][(nsent' > nsent /\ nsent > 0) => now - last_update >= UPDATE_INTERVAL]_vars

\* C12: constructing LifxLight with a negative initial transition duration
\* raises ValueError and does nothing else: the update loop is not created,
\* the light is never looked for (no scan, __aenter__ is never reached), nothing is
\* scheduled or sent; a non-negative duration is accepted and stored.
C12_InvalidConfiguration ==
    /\ [][(mainpc = "init" /\ mainpc' # "init") =>
            IF last_evt'.value < 0
            THEN /\ error' = "ValueError"
                 /\ mainpc' = "done"
                 /\ UNCHANGED << bulbpc, ready, running, transition_duration,
                                 timers, scheduled_update, nsent, cleaned >>
            ELSE /\ error' = "none"
                 /\ transition_duration' = last_evt'.value
                 /\ bulbpc' = "start"
                 /\ mainpc' = "scan"]_vars
    /\ [](error = "ValueError" =>
            /\ mainpc \in {"done", "closed"}
            /\ bulbpc = "none"
            /\ lights = <<>>
            /\ main_sleep = NoTime
            /\ ready = <<>>
            /\ timers = <<>>
            /\ nsent = 0
            /\ ~cleaned)

C12_Witness ==
    /\ error = "ValueError"
    /\ last_evt.type = "init"
    /\ last_evt.value < 0
    /\ now = MaxTime
    /\ nsent = 0

\* C13: pitch_to_temp is inverted and hits its anchors: pitch 0 gives 5750,
\* pitch 8192 gives 2500, pitch -8192 gives 9000; every result lies in
\* [2500, 9000], and the next higher pitch never gives a higher temperature.
C13_PitchAnchorsAndRange ==
    mainpc = "pitched" =>
        /\ temperature \in 2500..9000
        /\ last_evt.pitch = 0 => temperature = 5750
        /\ last_evt.pitch = 8192 => temperature = 2500
        /\ last_evt.pitch = 0 - 8192 => temperature = 9000
        /\ last_evt.pitch < 8192 => pitch_to_temp(last_evt.pitch + 1) <= temperature

C13_Witness ==
    /\ mainpc = "pitched"
    /\ last_evt.pitch = 8192
    /\ temperature = 2500

\* C14 (as stated): pitch_to_temp(pitch) is 9000 - round((pitch + 8192) / 16384
\* * 6500), the offset being rounded to the nearest integer.
C14_OffsetRounded ==
    mainpc = "pitched" =>
        temperature = 9000 - round((last_evt.pitch + 8192) * 6500, 16384)

\* C14 (amended): pitch_to_temp(pitch) is 9000 - floor((pitch + 8192) / 16384 *
\* 6500): the offset is truncated to the integer below, not rounded.
C14_OffsetTruncated ==
    mainpc = "pitched" =>
        LET offset == 9000 - temperature
        IN  /\ offset * 16384 <= (last_evt.pitch + 8192) * 6500
            /\ (last_evt.pitch + 8192) * 6500 < (offset + 1) * 16384

C14_Witness ==
    /\ mainpc = "pitched"
    /\ last_evt.pitch = 0 - 1
    /\ temperature = 5751

\* position of a note in the held notes (0 when it is not held)
PositionOf(d, note) ==
    IF \E i \in 1..Len(d) : d[i][1] = note
    THEN CHOOSE i \in 1..Len(d) : d[i][1] = note
    ELSE 0

\* C19: a note_on of velocity > 0 for a note already held sets that note's
\* velocity and keeps every note's position; if the note is the active (first)
\* one the colour becomes note_to_hsl(note, new velocity), otherwise neither
\* the active note nor the colour changes.
C19_RetriggerKeepsPosition ==
    [][(/\ MainTakes("note_on")
        /\ inbox.channel \in channels
        /\ inbox.velocity > 0
        /\ PositionOf(currently_playing, inbox.note) > 0)
       => LET k == PositionOf(currently_playing, inbox.note)
          IN  /\ Len(currently_playing') = Len(currently_playing)
              /\ \A j \in 1..Len(currently_playing) :
                    currently_playing'[j] =
                        IF j = k THEN <<inbox.note, inbox.velocity>>
                        ELSE currently_playing[j]
              /\ IF k = 1
                 THEN color' = note_to_hsl(inbox.note, inbox.velocity)
                 ELSE UNCHANGED color]_vars

C19_Witness ==
    /\ last_evt.type = "note_on"
    /\ last_evt.note = 60
    /\ last_evt.velocity = 80
    /\ currently_playing = << <<60, 80>>, <<64, 100>> >>
    /\ color = note_to_hsl(60, 80)
    /\ nsent > 0
    /\ last_sent.cmd.color = lifx_compat_color(note_to_hsl(60, 100), 5750)

\* C20: on a listened channel, a note_on of velocity 0, a control change of
\* another controller than modulation, or an event of any other kind leaves
\* the held notes and the bulb state unchanged and schedules no update.
C20_NonMutatingEvents ==
    [][(/\ inbox.type \in MidiTypes
        /\ MainTakes(inbox.type)
        /\ inbox.channel \in channels
        /\ IF inbox.type = "note_on" THEN inbox.velocity = 0
           ELSE IF inbox.type = "control_change" THEN inbox.control # MIDI_CC_MODULATION
           ELSE inbox.type \notin {"note_off", "pitchwheel"})
       => /\ UNCHANGED << currently_playing, color, temperature, transition_duration,
                          last_update, needs_update, scheduled_update, timers,
                          nsent, last_sent, running, mainpc >>
          /\ ready' = Tail(ready)]_vars

C20_Witness ==
    /\ last_evt.type = "note_on"
    /\ last_evt.channel = 0
    /\ last_evt.note = 60
    /\ last_evt.velocity = 0
    /\ currently_playing = << <<60, 100>> >>
    /\ color = note_to_hsl(60, 100)
    /\ mainpc = "events"
    /\ inbox = NoEvt

\* C17: after shutdown the update loop exits: once teardown is over and no
\* task is ready to run and no timer is outstanding (nothing can wake the loop
\* any more), _update_bulb_forever has returned.
C17_DispatchLoopExits ==
    (mainpc = "done" /\ cleaned /\ ready = <<>> /\ Outstanding = {})
        => bulbpc = "done"

\* C16: a set_color or set_temperature call that changed the state is
\* eventually followed by a command (which carries the state held at the send,
\* C4), provided the event loop keeps running its tasks and timers.
C16_NoLostUpdate ==
    unsent ~> (/\ ~unsent
               /\ nsent > 0
               /\ last_sent.cmd = LightSetColor(color, temperature, transition_duration))

C16_Witness ==
    /\ ~unsent
    /\ nsent = 2
    /\ running
    /\ last_sent.cmd.color = lifx_compat_color(color, temperature)
    /\ color = note_to_hsl(64, 80)
    /\ temperature = 2500

\* C18: once the `async with` block is left, in whatever state the updates
\* are, __aexit__ eventually completes and has called cleanup(), provided the
\* event loop keeps running its tasks and timers.
C18_ShutdownTerminates == (inbox.type = "end") ~> (mainpc = "done" /\ cleaned)

C18_Witness ==
    /\ mainpc = "done"
    /\ cleaned
    /\ last_evt.type = "end"
    /\ scheduled_update # NoTimer
    /\ nsent > 0
    /\ IsOffCommand(last_sent)
    /\ bulbpc = "done"

====
